---- MODULE Spec2Model ----
(***************************************************************************)
(* Model of datasets/mhpv1.py: the MHPv1 dataset.  get_files builds the    *)
(* (image, annotation list) index from a directory listing and a split     *)
(* manifest; __getitem__ / read_label fuse the per-person annotation masks *)
(* of one image into one label map.                                        *)
(*                                                                         *)
(* Text is a sequence of one-character strings, an array is a function     *)
(* from Pixels (the flattened H x W positions) to 8-bit values.            *)
(***************************************************************************)
EXTENDS Integers, Sequences, FiniteSets, TLC

\* ---------------------------------------------------------------- bounds
NumPixels == 2
MaxAnns == 3
LongLen == 257
MaxLines == 2
MaxAnnFiles == 3
NumWorkers == 2
MaxManifest == 3003

\* ------------------------------------------------------ program constants
TrainSize == 3000
Byte == 256
MaxClass == 18
IgnoreLabel == 255

Pixels == 1..NumPixels
Min(a, b) == IF a <= b THEN a ELSE b

VARIABLES
  \* the files under root
  annotations, train_list, test_list, split, transform,
  \* get_files
  pc, all_labels, all_files, files, fi, images, labels, failed_at,
  \* the constructed dataset object
  self_images, self_labels,
  \* one __getitem__ call per worker
  call,
  \* a single read_label call on a given list of decoded annotations
  rpc, lbl_arrays, k, acc, ret

vars == <<annotations, train_list, test_list, split, transform,
          pc, all_labels, all_files, files, fi, images, labels, failed_at,
          self_images, self_labels, call, rpc, lbl_arrays, k, acc, ret>>

dataVars == <<annotations, train_list, test_list, split, transform,
              pc, all_labels, all_files, files, fi, images, labels, failed_at,
              self_images, self_labels, call>>
fuseVars == <<rpc, lbl_arrays, k, acc, ret>>

\* ------------------------------------------------------------- read_label
Zeros == [p \in Pixels |-> 0]
NoMask == [p \in Pixels |-> FALSE]

\* labels = None, label_idx = None
NoneAcc == [none |-> TRUE, label_idx |-> Zeros, data |-> Zeros, mask |-> NoMask]

\* np.ma.masked_array(label, mask=label_idx): the mask is label_idx as booleans,
\* a copy taken when the masked array is made
MaskOf(label_idx) == [p \in Pixels |-> label_idx[p] # 0]

\* label_idx += np.minimum(label, 1): an in-place add into the plain uint8 array
\* label_idx; the addend's data is min(raw, 1) at every pixel, its mask plays no
\* part in an ndarray's own +=, and uint8 addition wraps
AddClaims(label_idx, raw) ==
  [p \in Pixels |-> (label_idx[p] + Min(raw[p], 1)) % Byte]

\* a plain sum of the annotations, the masks playing no part
AccumulateNaive(a, raw, mask) ==
  IF a.none THEN [data |-> raw, mask |-> mask]
  ELSE [data |-> [p \in Pixels |-> (a.data[p] + raw[p]) % Byte],
        mask |-> [p \in Pixels |-> a.mask[p] \/ mask[p]]]
\* a later annotation overwriting an earlier one where it is non-zero
AccumulateLast(a, raw, mask) ==
  IF a.none THEN [data |-> raw, mask |-> mask]
  ELSE [data |-> [p \in Pixels |-> IF raw[p] # 0 THEN raw[p] ELSE a.data[p]],
        mask |-> [p \in Pixels |-> a.mask[p] \/ mask[p]]]

\* labels = label on the first annotation, labels += label afterwards:
\* MaskedArray.__iadd__ ors the addend's mask into its own, then adds the
\* addend's data where the resulting mask is clear
Accumulate(a, raw, mask) ==
  IF a.none THEN [data |-> raw, mask |-> mask]
  ELSE LET m == [p \in Pixels |-> a.mask[p] \/ mask[p]]
       IN [data |-> [p \in Pixels |->
                       IF m[p] THEN a.data[p] ELSE (a.data[p] + raw[p]) % Byte],
           mask |-> m]

\* one iteration of the loop over lbl_paths, raw being the decoded annotation
FuseStep(a, raw) ==
  LET idx0 == IF a.none THEN Zeros ELSE a.label_idx
      mask == MaskOf(idx0)
      out == Accumulate(a, raw, mask)
  IN [none |-> FALSE, label_idx |-> AddClaims(idx0, raw),
      data |-> out.data, mask |-> out.mask]

\* torch.from_numpy(labels.data).unsqueeze(0).to(torch.uint8)
Returned(a) == [p \in Pixels |-> a.data[p] % Byte]

RECURSIVE FuseAll(_, _)
FuseAll(a, arrays) ==
  IF arrays = <<>> THEN a ELSE FuseAll(FuseStep(a, Head(arrays)), Tail(arrays))

\* read_label run to completion on a non-empty list of decoded annotations
ReadLabel(arrays) == Returned(FuseAll(NoneAcc, arrays))

ReadLabelIter ==
  /\ rpc = "loop"
  /\ k < Len(lbl_arrays)
  /\ acc' = FuseStep(acc, lbl_arrays[k + 1])
  /\ k' = k + 1
  /\ UNCHANGED <<rpc, lbl_arrays, ret>>
  /\ UNCHANGED dataVars

ReadLabelReturn ==
  /\ rpc = "loop"
  /\ k = Len(lbl_arrays)
  /\ ret' = Returned(acc)
  /\ rpc' = "returned"
  /\ UNCHANGED <<lbl_arrays, k, acc>>
  /\ UNCHANGED dataVars

ClassValues == {0, 7, MaxClass}
Arrays == [Pixels -> ClassValues]
AnnLists == UNION {[1..n -> Arrays] : n \in 1..MaxAnns}

IdleData ==
  /\ annotations = <<>> /\ train_list = <<>> /\ test_list = <<>>
  /\ split = "train" /\ transform = "none"
  /\ pc = "off" /\ all_labels = <<>> /\ all_files = <<>> /\ files = <<>>
  /\ fi = 0 /\ images = <<>> /\ labels = <<>> /\ failed_at = <<>>
  /\ self_images = <<>> /\ self_labels = <<>>
  /\ call = <<>>

InitFuse ==
  /\ IdleData
  /\ lbl_arrays \in AnnLists
  /\ rpc = "loop" /\ k = 0 /\ acc = NoneAcc /\ ret = Zeros

NextFuse == ReadLabelIter \/ ReadLabelReturn

SpecFuse == InitFuse /\ [][NextFuse]_vars

Repeat(a, n) == [i \in 1..n |-> a]

InitLong ==
  /\ IdleData
  /\ lbl_arrays \in {Repeat(a, LongLen) : a \in Arrays}
  /\ rpc = "loop" /\ k = 0 /\ acc = NoneAcc /\ ret = Zeros

SpecLong == InitLong /\ [][NextFuse]_vars

\* ------------------------------------------------------------- file names
Dot == "."
StartsWith(s, pre) == Len(pre) <= Len(s) /\ SubSeq(s, 1, Len(pre)) = pre
EndsWith(s, suf) ==
  Len(suf) <= Len(s) /\ SubSeq(s, Len(s) - Len(suf) + 1, Len(s)) = suf
DotsOf(s) == {i \in 1..Len(s) : s[i] = Dot}
FirstDot(s) == CHOOSE i \in DotsOf(s) : \A j \in DotsOf(s) : i <= j
LastDot(s) == CHOOSE i \in DotsOf(s) : \A j \in DotsOf(s) : i >= j

\* f.split('.')[0]
SplitFirstDot(f) == IF DotsOf(f) = {} THEN f ELSE SubSeq(f, 1, FirstDot(f) - 1)

\* pathlib's x.stem: the final component up to its last dot, the whole of it when
\* that dot is its first or last character or it has none
PathStem(name) ==
  IF DotsOf(name) = {} \/ LastDot(name) = 1 \/ LastDot(name) = Len(name)
  THEN name ELSE SubSeq(name, 1, LastDot(name) - 1)

\* the pattern '*.png'
IsPng(name) == EndsWith(name, <<".", "p", "n", "g">>)

\* list((root / 'annotations').rglob('*.png')): the png files of the listing of
\* annotations/ and its subdirectories, in the order the listing enumerates them
RGlobPng(listing) == SelectSeq(listing, LAMBDA x : IsPng(x.name))

\* root / 'images' / f
ImagePath(f) == [dir |-> <<"images">>, name |-> f]

\* the first match alone
MatchesFirstOnly(f, pool) ==
  LET all == SelectSeq(pool, LAMBDA x : StartsWith(PathStem(x.name), SplitFirstDot(f)))
  IN IF all = <<>> THEN <<>> ELSE <<Head(all)>>
\* list(filter(lambda x: x.stem.startswith(img_name), all_labels))
Matches(f, pool) ==
  SelectSeq(pool, LAMBDA x : StartsWith(PathStem(x.name), SplitFirstDot(f)))

\* the val slice starting one line early
SelectFilesOverlap(lines, s) ==
  IF s = "train" THEN SubSeq(lines, 1, Min(Len(lines), TrainSize))
  ELSE IF s = "val" THEN SubSeq(lines, Min(Len(lines), TrainSize - 1) + 1, Len(lines))
  ELSE lines
\* all_files[:3000], all_files[3000:], all_files
SelectFiles(lines, s) ==
  IF s = "train" THEN SubSeq(lines, 1, Min(Len(lines), TrainSize))
  ELSE IF s = "val" THEN SubSeq(lines, Min(Len(lines), TrainSize) + 1, Len(lines))
  ELSE lines

\* flist = 'test_list.txt' if split == 'test' else 'train_list.txt', read as lines
ReadManifest(s, train, test) == IF s = "test" THEN test ELSE train

Splits == {"train", "val", "test"}

\* -------------------------------------------------------------- get_files
GetFilesStart ==
  /\ pc = "init"
  /\ all_labels' = RGlobPng(annotations)
  /\ all_files' = ReadManifest(split, train_list, test_list)
  /\ files' = SelectFiles(ReadManifest(split, train_list, test_list), split)
  /\ images' = <<>> /\ labels' = <<>> /\ fi' = 0
  /\ pc' = "loop"
  /\ UNCHANGED <<annotations, train_list, test_list, split, transform, failed_at,
                 self_images, self_labels, call>>
  /\ UNCHANGED fuseVars

\* a pass that skips a filename without matches instead of failing
GetFilesIterSkip ==
  /\ pc = "loop"
  /\ fi < Len(files)
  /\ fi' = fi + 1
  /\ LET f == files[fi + 1]
         labels_per_images == Matches(f, all_labels)
     IN IF labels_per_images = <<>>
        THEN UNCHANGED <<pc, failed_at, images, labels>>
        ELSE /\ images' = Append(images, ImagePath(f))
             /\ labels' = Append(labels, labels_per_images)
             /\ UNCHANGED <<pc, failed_at>>
  /\ UNCHANGED <<annotations, train_list, test_list, split, transform,
                 all_labels, all_files, files, self_images, self_labels, call>>
  /\ UNCHANGED fuseVars
\* a pass that extends labels with the matches instead of appending their list
GetFilesIterExtend ==
  /\ pc = "loop"
  /\ fi < Len(files)
  /\ fi' = fi + 1
  /\ LET f == files[fi + 1]
         labels_per_images == Matches(f, all_labels)
     IN /\ images' = Append(images, ImagePath(f))
        /\ IF labels_per_images = <<>>
           THEN /\ pc' = "failed" /\ failed_at' = <<"no labels", f>>
                /\ UNCHANGED labels
           ELSE /\ labels' = labels \o [i \in 1..Len(labels_per_images) |->
                                          <<labels_per_images[i]>>]
                /\ UNCHANGED <<pc, failed_at>>
  /\ UNCHANGED <<annotations, train_list, test_list, split, transform,
                 all_labels, all_files, files, self_images, self_labels, call>>
  /\ UNCHANGED fuseVars
\* one pass of `for f in files`; the assert on an empty match list ends get_files
GetFilesIter ==
  /\ pc = "loop"
  /\ fi < Len(files)
  /\ fi' = fi + 1
  /\ LET f == files[fi + 1]
         labels_per_images == Matches(f, all_labels)
     IN /\ images' = Append(images, ImagePath(f))
        /\ IF labels_per_images = <<>>
           THEN /\ pc' = "failed" /\ failed_at' = <<"no labels", f>>
                /\ UNCHANGED labels
           ELSE /\ labels' = Append(labels, labels_per_images)
                /\ UNCHANGED <<pc, failed_at>>
  /\ UNCHANGED <<annotations, train_list, test_list, split, transform,
                 all_labels, all_files, files, self_images, self_labels, call>>
  /\ UNCHANGED fuseVars

\* assert len(images) == len(labels); return images, labels; and __init__'s
\* self.images, self.labels = self.get_files(root, split)
GetFilesReturn ==
  /\ pc = "loop"
  /\ fi = Len(files)
  /\ IF Len(images) = Len(labels)
     THEN /\ self_images' = images /\ self_labels' = labels
          /\ pc' = "ready"
          /\ UNCHANGED failed_at
     ELSE /\ pc' = "failed" /\ failed_at' = <<"lengths differ">>
          /\ UNCHANGED <<self_images, self_labels>>
  /\ UNCHANGED <<annotations, train_list, test_list, split, transform,
                 all_labels, all_files, files, fi, images, labels, call>>
  /\ UNCHANGED fuseVars

\* __len__
DatasetLen == Len(self_images)

\* ------------------------------------------------------------ __getitem__
Workers == 1..NumWorkers

N_p1_01_png == <<"p", "1", "_", "0", "1", ".", "p", "n", "g">>
N_p1_02_png == <<"p", "1", "_", "0", "2", ".", "p", "n", "g">>
N_p2_x_png == <<"p", "2", ".", "x", ".", "p", "n", "g">>
N_p2_02_jpg == <<"p", "2", "_", "0", "2", ".", "j", "p", "g">>
N_p1_jpg == <<"p", "1", ".", "j", "p", "g">>
N_p2_v_jpg == <<"p", "2", ".", "v", ".", "j", "p", "g">>
N_q_jpg == <<"q", ".", "j", "p", "g">>

F_p1_01 == [dir |-> <<"annotations">>, name |-> N_p1_01_png]
F_p1_02 == [dir |-> <<"annotations">>, name |-> N_p1_02_png]
F_p2_x == [dir |-> <<"annotations", "sub">>, name |-> N_p2_x_png]
F_p2_02 == [dir |-> <<"annotations">>, name |-> N_p2_02_jpg]

\* io.read_image(str(lbl_path)).squeeze().numpy(): what each annotation file holds
ReadImage(x) ==
  IF x = F_p1_01 THEN [p \in Pixels |-> 4]
  ELSE IF x = F_p1_02 THEN [p \in Pixels |-> 7]
  ELSE [p \in Pixels |-> IF p = 1 THEN 0 ELSE MaxClass]

\* self.transform(image, label): none, or a transform of the caller's, here one
\* that mirrors the label
Transform(t, label) ==
  IF t = "none" THEN label ELSE [p \in Pixels |-> label[NumPixels + 1 - p]]

IdleCall == [pc |-> "idle", index |-> 0, img_path |-> <<>>, lbl_paths |-> <<>>,
             k |-> 0, acc |-> NoneAcc, image |-> <<>>, label |-> Zeros]

\* accumulators kept in one place for every call
AccumShared(c, w) == c[1].acc
\* the accumulators labels and label_idx a read_label call works on: its own locals
Accum(c, w) == c[w].acc

\* img_path, lbl_paths = self.images[index], self.labels[index]; read_image;
\* read_label's labels = None, label_idx = None.  index counts from 1 here.
GetItemStart(w) ==
  /\ pc = "ready"
  /\ call[w].pc \in {"idle", "done"}
  /\ \E index \in 1..DatasetLen :
       call' = [call EXCEPT ![w] =
                  [pc |-> "read", index |-> index,
                   img_path |-> self_images[index],
                   lbl_paths |-> self_labels[index],
                   k |-> 0, acc |-> NoneAcc, image |-> <<>>, label |-> Zeros]]
  /\ UNCHANGED <<annotations, train_list, test_list, split, transform,
                 pc, all_labels, all_files, files, fi, images, labels, failed_at,
                 self_images, self_labels>>
  /\ UNCHANGED fuseVars

\* one pass of `for lbl_path in lbl_paths` in this call's read_label
GetItemReadLabel(w) ==
  /\ call[w].pc = "read"
  /\ call[w].k < Len(call[w].lbl_paths)
  /\ call' = [call EXCEPT
                ![w].acc = FuseStep(Accum(call, w),
                                    ReadImage(call[w].lbl_paths[call[w].k + 1])),
                ![w].k = call[w].k + 1]
  /\ UNCHANGED <<annotations, train_list, test_list, split, transform,
                 pc, all_labels, all_files, files, fi, images, labels, failed_at,
                 self_images, self_labels>>
  /\ UNCHANGED fuseVars

\* read_label returns; the transform, if any; return image, label.squeeze().long()
GetItemReturn(w) ==
  /\ call[w].pc = "read"
  /\ call[w].k = Len(call[w].lbl_paths)
  /\ call' = [call EXCEPT
                ![w].pc = "done",
                ![w].image = call[w].img_path,
                ![w].label = Transform(transform, Returned(Accum(call, w)))]
  /\ UNCHANGED <<annotations, train_list, test_list, split, transform,
                 pc, all_labels, all_files, files, fi, images, labels, failed_at,
                 self_images, self_labels>>
  /\ UNCHANGED fuseVars

\* ------------------------------------------------------- the whole dataset
\* what annotations/ may hold, in every order its listing may have, and the
\* lines a manifest may hold; the datasets that are loaded from hold png
\* annotations only
AnnFiles == {F_p1_01, F_p1_02, F_p2_x, F_p2_02}
PngFiles == {F_p1_01, F_p1_02, F_p2_x}
ManifestLines == {N_p1_jpg, N_p2_v_jpg, N_q_jpg}
NoRepeat(s) == \A i, j \in 1..Len(s) : i # j => s[i] # s[j]
Listings ==
  {s \in UNION {[1..n -> AnnFiles] : n \in 0..MaxAnnFiles} : NoRepeat(s)}
PngListings ==
  {s \in UNION {[1..n -> PngFiles] : n \in 0..MaxAnnFiles} : NoRepeat(s)}
Manifests == UNION {[1..n -> ManifestLines] : n \in 0..MaxLines}

IdleFuse ==
  rpc = "off" /\ lbl_arrays = <<>> /\ k = 0 /\ acc = NoneAcc /\ ret = Zeros

\* before construction; the manifest the split does not read holds one line
Roots(listings, manifests) ==
  /\ annotations \in listings
  /\ split \in Splits
  /\ transform \in {"none", "mirror"}
  /\ IF split = "test"
     THEN test_list \in manifests /\ train_list = <<N_q_jpg>>
     ELSE train_list \in manifests /\ test_list = <<N_q_jpg>>
  /\ pc = "init" /\ all_labels = <<>> /\ all_files = <<>> /\ files = <<>>
  /\ fi = 0 /\ images = <<>> /\ labels = <<>> /\ failed_at = <<>>
  /\ self_images = <<>> /\ self_labels = <<>>
  /\ call = [w \in Workers |-> IdleCall]
  /\ IdleFuse

Init == Roots(PngListings, Manifests)

InitIndex == Roots(Listings, Manifests)

NextIndex ==
  \/ GetFilesStart
  \/ GetFilesIter
  \/ GetFilesReturn

\* construction alone
SpecIndex == InitIndex /\ [][NextIndex]_vars

\* construction, then NumWorkers workers loading samples
Next ==
  \/ GetFilesStart
  \/ GetFilesIter
  \/ GetFilesReturn
  \/ \E w \in Workers : GetItemStart(w)
  \/ \E w \in Workers : GetItemReadLabel(w)
  \/ \E w \in Workers : GetItemReturn(w)

Spec == Init /\ [][Next]_vars

\* lines 37-46 alone, on manifests whose lines are their own line numbers
InitSplit ==
  /\ annotations = <<>>
  /\ split \in Splits
  /\ transform = "none"
  /\ \E n \in 0..MaxManifest :
       IF split = "test"
       THEN test_list = [i \in 1..n |-> 0 - i] /\ train_list = <<0>>
       ELSE train_list = [i \in 1..n |-> i] /\ test_list = <<0>>
  /\ pc = "init" /\ all_labels = <<>> /\ all_files = <<>> /\ files = <<>>
  /\ fi = 0 /\ images = <<>> /\ labels = <<>> /\ failed_at = <<>>
  /\ self_images = <<>> /\ self_labels = <<>>
  /\ call = [w \in Workers |-> IdleCall]
  /\ IdleFuse

SpecSplit == InitSplit /\ [][GetFilesStart]_vars

\* ------------------------------------------------------------------ claims
NonZeroAt(p, n) == {j \in 1..n : lbl_arrays[j][p] # 0}
FirstWins(p) ==
  IF NonZeroAt(p, Len(lbl_arrays)) = {} THEN 0
  ELSE lbl_arrays[CHOOSE j \in NonZeroAt(p, Len(lbl_arrays)) :
                    \A i \in NonZeroAt(p, Len(lbl_arrays)) : j <= i][p]

\* C1: the fused value of every pixel is the value of the first annotation, in
\* list order, that is non-zero there, and 0 when none is
C1_FirstWriterWins ==
  rpc = "returned" => \A p \in Pixels : ret[p] = FirstWins(p)

C1_Witness ==
  /\ rpc = "returned" /\ Len(lbl_arrays) >= 2
  /\ \E p \in Pixels :
       /\ lbl_arrays[1][p] = 7 /\ lbl_arrays[2][p] = MaxClass /\ ret[p] = 7

\* C7: no pixel of the output accumulator ever holds a sum of two annotation
\* values: it is 0 or the value one processed annotation has there, so with
\* annotation values in 0..MaxClass it stays in 0..MaxClass and is never the
\* ignore value
C7_NoDoubleCount ==
  \A p \in Pixels :
    /\ acc.data[p] \in {0} \cup {lbl_arrays[j][p] : j \in 1..k}
    /\ acc.data[p] \in 0..MaxClass
    /\ acc.data[p] # IgnoreLabel
    /\ rpc = "returned" => ret[p] \in 0..MaxClass /\ ret[p] # IgnoreLabel

C7_Witness ==
  /\ rpc = "returned"
  /\ \E p \in Pixels : Cardinality(NonZeroAt(p, Len(lbl_arrays))) >= 2
                       /\ ret[p] = MaxClass

\* C9: after the first k annotations label_idx is exactly 1 at a pixel where one
\* of them is non-zero and exactly 0 elsewhere
C9_SaturatingFlag ==
  k >= 1 => \A p \in Pixels :
              acc.label_idx[p] = IF NonZeroAt(p, k) # {} THEN 1 ELSE 0

\* C10: across every loop iteration label_idx does not decrease at any pixel
C10_ClaimsNeverDecrease ==
  [][\A p \in Pixels : acc'.label_idx[p] >= acc.label_idx[p]]_vars

\* C2: the train split is the first min(N, TrainSize) lines of train_list, the
\* val split the remaining ones, their sizes add up to N, and the test split is
\* every line of test_list
C2_SplitPartition ==
  pc = "loop" =>
    LET n == Len(train_list) IN
    /\ split = "train" =>
         /\ Len(files) = Min(n, TrainSize)
         /\ \A i \in 1..Len(files) : files[i] = train_list[i]
    /\ split = "val" =>
         /\ Len(files) = n - Min(n, TrainSize)
         /\ \A i \in 1..Len(files) : files[i] = train_list[TrainSize + i]
    /\ split # "test" =>
         Len(SelectFiles(train_list, "train")) + Len(SelectFiles(train_list, "val")) = n
    /\ split = "test" => files = test_list

C2_Witness ==
  /\ pc = "loop" /\ split = "val"
  /\ Len(train_list) > TrainSize + 1 /\ Len(files) = Len(train_list) - TrainSize

\* the matching rule as the interface states it: x's filename without its
\* extension starts with the portion of f before f's first dot
Belongs(x, f) ==
  \E e \in 1..Len(x.name) :
    /\ x.name[e] = Dot
    /\ \A j \in (e + 1)..Len(x.name) : x.name[j] # Dot
    /\ \E m \in 0..Len(f) :
         /\ \A j \in 1..m : f[j] # Dot
         /\ m = Len(f) \/ f[m + 1] = Dot
         /\ m <= e - 1
         /\ \A j \in 1..m : x.name[j] = f[j]
PoolSet == {all_labels[i] : i \in 1..Len(all_labels)}
HasLabels(f) == \E x \in PoolSet : Belongs(x, f)

\* C3: an index is returned only when every filename of the slice has a match,
\* and then no entry's annotation list is empty; get_files fails, with no index,
\* exactly at the first filename that has none
C3_IndexCompleteness ==
  /\ pc = "ready" =>
       /\ \A i \in 1..Len(files) : HasLabels(files[i])
       /\ \A i \in 1..Len(self_labels) : self_labels[i] # <<>>
  /\ pc = "failed" =>
       /\ failed_at = <<"no labels", files[fi]>>
       /\ ~HasLabels(files[fi])
       /\ \A i \in 1..(fi - 1) : HasLabels(files[i])
  /\ pc # "ready" => self_images = <<>> /\ self_labels = <<>>
  /\ pc = "loop" => \A i \in 1..fi : HasLabels(files[i])

C3_Witness ==
  /\ pc = "failed" /\ fi = 2
  /\ HasLabels(files[1]) /\ ~HasLabels(files[2])

\* C4: after every pass of the loop images and labels have the same length, the
\* final assertion does not fail, and the index returned has one entry per line
\* of the slice, in manifest order: that line's image path and its matches
C4_IndexAlignment ==
  /\ pc \in {"loop", "ready"} => Len(images) = Len(labels) /\ Len(images) = fi
  /\ pc = "failed" => failed_at[1] # "lengths differ"
  /\ pc = "ready" =>
       /\ DatasetLen = Len(files) /\ Len(self_labels) = Len(files)
       /\ \A i \in 1..Len(files) :
            /\ self_images[i] = [dir |-> <<"images">>, name |-> files[i]]
            /\ \A x \in PoolSet :
                 Belongs(x, files[i]) <=>
                   \E j \in 1..Len(self_labels[i]) : self_labels[i][j] = x

C4_Witness ==
  /\ pc = "ready" /\ DatasetLen = 2
  /\ files[1] # files[2] /\ Len(self_labels[1]) = 2 /\ Len(self_labels[2]) = 1

PoolPos(x) == CHOOSE i \in 1..Len(all_labels) : all_labels[i] = x

\* C5: an entry's annotation list holds exactly the annotation files of the pool
\* that belong to its filename, each once, in pool order
C5_MatchingRule ==
  \A i \in 1..Len(labels) :
    LET l == labels[i] IN
    /\ \A x \in PoolSet :
         Belongs(x, files[i]) <=> \E j \in 1..Len(l) : l[j] = x
    /\ \A a, b \in 1..Len(l) : a < b => PoolPos(l[a]) < PoolPos(l[b])

C5_Witness ==
  /\ pc = "ready" /\ Len(all_labels) = 3
  /\ \E i \in 1..Len(self_labels) : Len(self_labels[i]) = 2

\* the train split of a root holding p1_01.png (all 4), p1_02.png (all 7) and a
\* one-line train_list.txt naming p1.jpg
Scenario ==
  /\ Len(annotations) = 2
  /\ {annotations[1], annotations[2]} = {F_p1_01, F_p1_02}
  /\ train_list = <<N_p1_jpg>> /\ split = "train" /\ transform = "none"

\* C6: in that scenario the label map of index 0 is 4 at every pixel, whatever
\* order the listing of annotations/ has
C6_EndToEnd ==
  Scenario =>
    \A w \in Workers :
      call[w].pc = "done" => \A p \in Pixels : call[w].label[p] = 4

Decoded(paths) == [i \in 1..Len(paths) |-> ReadImage(paths[i])]

\* every call in flight holds what read_label gives, run alone, on the
\* annotations it has processed, and every finished call what it returns alone
C8_CallState ==
  pc = "ready" =>
    \A w \in Workers :
      /\ call[w].pc \in {"read", "done"} =>
           /\ call[w].lbl_paths = self_labels[call[w].index]
           /\ call[w].acc =
                FuseAll(NoneAcc, SubSeq(Decoded(call[w].lbl_paths), 1, call[w].k))
      /\ call[w].pc = "done" =>
           /\ call[w].image = self_images[call[w].index]
           /\ call[w].label =
                Transform(transform, ReadLabel(Decoded(self_labels[call[w].index])))
           /\ \A v \in Workers :
                call[v].pc = "done" /\ call[v].index = call[w].index =>
                  call[v].image = call[w].image /\ call[v].label = call[w].label
\* C8: loading samples changes nothing of the dataset's index, every call works
\* on its own accumulators (a step of one call leaves the others' untouched), and
\* under every interleaving a call returns what read_label and the transform
\* give for its index when run alone, equal for equal indices
C8_StatelessLoads ==
  /\ []C8_CallState
  /\ [][pc = "ready" =>
          /\ self_images' = self_images /\ self_labels' = self_labels
          /\ pc' = pc /\ files' = files /\ transform' = transform
          /\ \A w \in Workers :
               call'[w] # call[w] => \A v \in Workers \ {w} : call'[v] = call[v]]_vars

C8_Witness ==
  \E w, v \in Workers :
    /\ w # v
    /\ call[w].pc = "read" /\ call[w].k = 1 /\ Len(call[w].lbl_paths) = 2
    /\ call[v].pc = "done" /\ call[v].index = call[w].index

====
